---- MODULE Spec2Model ----
(***************************************************************************)
(* Agent control loops of the escape trip planner: the LangGraph state     *)
(* machines of the guide (agents/local_escape_room_guide.py), the          *)
(* reservationist (agents/escape_room_reservationist.py) and the planner   *)
(* (agents/escape_room_planner.py), with the rate-limit retry and backoff  *)
(* of util/utils.py.                                                       *)
(*                                                                         *)
(* One behaviour is one run of one loop: `kind` is fixed by Init, the      *)
(* model collaborator and the tool handlers are the environment and their  *)
(* answers are chosen with \E.  Time is counted in 1/Scale seconds so that *)
(* the jittered delay is an exact integer.                                 *)
(*                                                                         *)
(* The guide's tool search_escape_rooms (tools/tools.py) and the files it  *)
(* caches listings in (util/utils.py) are specified on their own: one      *)
(* process making request after request, and two processes at once.        *)
(* calculate_backoff_delay is also specified on its own.  So are the       *)
(* reservationist over the tool lists of several browser hosts, the        *)
(* hierarchy of plan_escape_room_trip, in which the tool handlers of the    *)
(* planner run guide and reservationist loops, and the Morty search agent  *)
(* (agents/morty_agent.py).                                                *)
(***************************************************************************)
EXTENDS Integers, Sequences, FiniteSets

VARIABLES
    kind,           \* which of the three loops this run is
    node,           \* graph position: "agent", "tools", "error", "END", or "raised"
    sleeping,       \* TRUE while agent_node is blocked inside time.sleep / asyncio.sleep
    messages,       \* AgentState.messages
    retry_count,    \* AgentState.retry_count
    rate_limited,   \* AgentState.rate_limited
    error_message,  \* AgentState.error_message
    returned,       \* <<>> until the caller of invoke() has its result, then <<result>>
    owed,           \* delay handed to sleep() after the last rate-limit signal
    elapsed,        \* time that has passed since that signal
    exc,            \* the exception agent_node is handling or has let out, NoError otherwise
    visited,        \* history: nodes entered, in order
    calls,          \* history: model calls issued
    responses,      \* history: model calls that returned a message
    signals,        \* history: rate-limit signals raised by the model, in total
    streak,         \* history: rate-limit signals since the last returned message
    nextId,         \* history: tool calls issued by the model so far
    toolLog,        \* history: handler invocations, in order
    mcp_tools,      \* the tools the browser host lists for the session, by name
    stray,          \* names beside those of ToolNames that a response of the model may call
    presented,      \* history: the tools bound to the model at its latest call
    api_key,        \* TRUE iff ANTHROPIC_API_KEY is set in the environment
    trip,           \* the call of plan_escape_room_trip
    focus,          \* the loop the variables above hold: 0 the planner, i the sub-loop of handler i
    saved,          \* the other loops of the hierarchy, as they were when last stepped
    handlers,       \* the tool handlers the planner's tools node has started
    backoff,        \* the arguments and the results of calculate_backoff_delay under test
    key,            \* a region name and the cache file search_escape_rooms derives from it
    st_birthtime,   \* TRUE iff os.stat results carry st_birthtime on this platform
    now,            \* time.time(), in seconds
    ticks,          \* how many times the clock has been advanced
    files,          \* the files of DATA_DIR, by name
    req             \* the calls of search_escape_rooms, one per process

loop == <<kind, node, sleeping, messages, retry_count, rate_limited,
          error_message, returned, owed, elapsed, exc, visited, calls,
          responses, signals, streak, nextId, toolLog, mcp_tools, stray,
          presented>>

\* The planner and the sub-loops its tool handlers run.
hierarchy == <<api_key, trip, focus, saved, handlers>>

\* What a run of a control loop leaves alone.
aux == <<backoff, key, st_birthtime, now, ticks, files, req, hierarchy>>

\* What a call of search_escape_rooms leaves alone, the files and the clock aside.
beside_cache == <<loop, backoff, key, hierarchy>>

vars == <<loop, aux>>

state == <<messages, retry_count, rate_limited, error_message>>

-----------------------------------------------------------------------------
(* Program constants (util/utils.py). *)
MAX_RETRIES == 5
BASE_DELAY == 60
MAX_DELAY == 300

(* Bounds of the model. *)
MaxSignals == 6      \* rate-limit signals the model may raise in one run
MaxMessages == 6     \* length of the conversation
JitterDen == 2       \* random.random() is sampled from {0/JitterDen .. (JitterDen-1)/JitterDen}
MaxAttempt == 10     \* retry counts calculate_backoff_delay is applied to on its own
MaxTicks == 3        \* how many times the clock advances between requests
MaxRevs == 2         \* revisions of the directory's data
MaxCalls == 4        \* calls of search_escape_rooms a process makes
MaxRaceCalls == 2    \* calls the first of two concurrent processes makes
MaxRegionLen == 3    \* pieces of a region name
MaxTripMessages == 5 \* length of the conversation of a planner that runs sub-loops
MaxSubMessages == 4  \* length of the conversation of a loop a tool handler runs
MaxRooms == 2        \* escape rooms the structured output of the Morty agent lists

Scale == 4 * JitterDen

Kinds == {"guide", "reservationist", "planner"}

RATE_LIMIT_TEXT == "Service temporarily unavailable due to rate limiting. Please try again later."
GENERIC_TEXT == "Service temporarily unavailable. Please try again later."
None == "None"

-----------------------------------------------------------------------------
(* Message contents.  A content is either a str or a list of content       *)
(* blocks; the text is identified by a tag, an ordinal and a name.         *)
Content(k, tag, n, s) == [kind |-> k, tag |-> tag, n |-> n, s |-> s]
Str(tag, n, s) == Content("str", tag, n, s)

\* x.content if isinstance(x.content, str) else str(x.content)
content_text(c) == IF c.kind = "str" THEN c ELSE Content("str", "repr", c.n, c.tag)

NoCalls == << >>
HumanMessage(c) == [role |-> "human", content |-> c, tool_calls |-> NoCalls, tool_call_id |-> 0]
AIMessage(c, tcs) == [role |-> "ai", content |-> c, tool_calls |-> tcs, tool_call_id |-> 0]
ToolMessage(c, id) == [role |-> "tool", content |-> c, tool_calls |-> NoCalls, tool_call_id |-> id]

\* The names a model response may put in a tool call, per loop.
ToolNames(k) ==
    IF k \in {"guide", "morty"} THEN {"search_escape_rooms"}
    ELSE IF k = "planner" THEN {"get_escape_room_recommendations", "check_room_availability"}
    ELSE {"browser_navigate", "browser_close"}

Last(s) == s[Len(s)]
Range(s) == {s[i] : i \in 1..Len(s)}

\* ALLOWED_TOOLS of the reservationist.
ALLOWED_TOOLS ==
    {"browser_navigate", "browser_click", "browser_type", "browser_snapshot",
     "browser_scroll", "browser_select_option", "browser_press_key",
     "browser_go_back", "browser_tab_close", "browser_close"}

\* mcp_tools = (await session.list_tools()).tools: what a browser host lists,
\* tools outside ALLOWED_TOOLS among them.
PlaywrightTools ==
    <<"browser_navigate", "browser_evaluate", "browser_tab_list", "browser_close">>

\* Variant: every tool of the host is converted and bound.
tools_for_llm_unfiltered(host) == host

\* The for loop of the reservationist's agent_node: a tool whose name is not
\* in ALLOWED_TOOLS is skipped, the others are converted in the host's order.
tools_for_llm(host) ==
    LET allowed(name) == name \in ALLOWED_TOOLS
    IN  SelectSeq(host, allowed)

\* llm.bind_tools(...): the tools a model call of a loop carries.
bound_tools(k, host) ==
    IF k \in {"guide", "morty"} THEN <<"search_escape_rooms">>
    ELSE IF k = "planner"
    THEN <<"get_escape_room_recommendations", "check_room_availability">>
    ELSE tools_for_llm(host)

\* What a model call may raise: anthropic.RateLimitError (HTTP 429),
\* httpx.HTTPStatusError with some status, or any other exception.
Error(t, c) == [type |-> t, status_code |-> c]
NoError == Error("none", 0)
ModelErrors ==
    {Error("RateLimitError", 429), Error("HTTPStatusError", 429),
     Error("HTTPStatusError", 500), Error("Exception", 0)}

-----------------------------------------------------------------------------
(* Backoff (util/utils.py). *)
Min(a, b) == IF a < b THEN a ELSE b

RECURSIVE Pow2(_)
Pow2(n) == IF n <= 0 THEN 1 ELSE 2 * Pow2(n - 1)

\* Variant: the delay of the next attempt.
calculate_backoff_delay_next(rc, j) ==
    LET delay == Min(BASE_DELAY * Pow2(rc + 1), MAX_DELAY)
        jitter == delay * (2 * j - JitterDen)
    IN  delay * Scale + jitter

\* Variant: the exponential delay without the cap.
capped_delay_uncapped(rc) == BASE_DELAY * Pow2(rc)

\* delay = BASE_DELAY * (2**retry_count); delay = min(delay, MAX_DELAY)
capped_delay(rc) == Min(BASE_DELAY * Pow2(rc), MAX_DELAY)

\* Variant: jitter of up to half of the delay.
calculate_backoff_delay_wide(rc, j) ==
    LET delay == capped_delay(rc)
        jitter == 2 * delay * (2 * j - JitterDen)
    IN  delay * Scale + jitter

\* The result in 1/Scale seconds for random.random() = j / JitterDen:
\* delay * 0.25 * (2 * r - 1) * Scale = delay * (2 * j - JitterDen).
calculate_backoff_delay(rc, j) ==
    LET delay == capped_delay(rc)
        jitter == delay * (2 * j - JitterDen)
    IN  delay * Scale + jitter

\* time.sleep(delay) / await asyncio.sleep(delay): the time that has passed on return.
sleep(delay) == delay

-----------------------------------------------------------------------------
(* The decisions of agent_node. *)

\* Variant: the status of an HTTPStatusError is not looked at.
is_rate_limit_any_status(e) == e.type \in {"RateLimitError", "HTTPStatusError"}

\* except (RateLimitError, httpx.HTTPStatusError) without the re-raise of an
\* HTTPStatusError whose status is not 429: the errors handled as a rate-limit signal.
is_rate_limit(e) ==
    /\ e.type \in {"RateLimitError", "HTTPStatusError"}
    /\ ~(e.type = "HTTPStatusError" /\ e.status_code # 429)

\* Variant: the comparison off by one.
retries_exhausted_early(new_retry_count) == new_retry_count >= MAX_RETRIES

\* if new_retry_count > MAX_RETRIES
retries_exhausted(new_retry_count) == new_retry_count > MAX_RETRIES

\* Variant: the response is appended and retry_count is left as it is.
response_update_no_reset(msgs, response) ==
    [messages |-> Append(msgs, response), retry_count |-> retry_count]

\* return {"messages": [response], "retry_count": 0}, merged into the state
\* (add_messages appends the response).
response_update(msgs, response) ==
    [messages |-> Append(msgs, response), retry_count |-> 0]

\* Variant: the generic text whatever error_message holds.
error_msg_generic(em) == GENERIC_TEXT

\* state.error_message or "Service temporarily unavailable. Please try again later."
error_msg(em) == IF em # None THEN em ELSE GENERIC_TEXT

-----------------------------------------------------------------------------
(* Routing and result. *)
\* Variant: the retry branch is missing.
should_continue_no_retry(msgs, rc, rl) ==
    IF rl THEN "error"
    ELSE IF Last(msgs).role = "ai" /\ Len(Last(msgs).tool_calls) > 0 THEN "tools"
    ELSE "END"

should_continue(msgs, rc, rl) ==
    IF rl THEN "error"
    ELSE IF rc > 0 /\ ~rl THEN "agent"
    ELSE IF Last(msgs).role = "ai" /\ Len(Last(msgs).tool_calls) > 0 THEN "tools"
    ELSE "END"

\* Variant: the first assistant message instead of the last message.
Result_first(k, msgs) ==
    LET text == content_text(msgs[2].content)
    IN  IF k = "reservationist"
        THEN [venue_name |-> "Extracted from agent response",
              booking_notes |-> text, error |-> None]
        ELSE [text |-> text]

\* What the caller of invoke() makes of the final state.
Result(k, msgs) ==
    LET text == content_text(Last(msgs).content)
    IN  IF k = "reservationist"
        THEN [venue_name |-> "Extracted from agent response",
              booking_notes |-> text, error |-> None]
        ELSE [text |-> text]

\* The graph moves to node n; on END invoke() returns to its caller.
Goto(n, msgs) ==
    /\ node' = n
    /\ visited' = Append(visited, n)
    /\ returned' = IF n = "END" THEN <<Result(kind, msgs)>> ELSE returned

-----------------------------------------------------------------------------
(* The freshness cache: the files of DATA_DIR (util/utils.py) as            *)
(* search_escape_rooms uses them (tools/tools.py).  A file is a sequence of *)
(* JSON tokens; `put` and `failed` are history: the last dump_kb that ran   *)
(* to its end, and whether a dump_kb of the file has raised.                *)
CACHE_DURATION_SECONDS == 30 * 24 * 60 * 60

Day == 24 * 60 * 60
Epoch == 20000 * Day         \* time.time() at the first request
TickDays == {1, 29}          \* the clock advances by one day or by 29 days
Procs == {1, 2}              \* processes running the program over the same DATA_DIR

\* A region name is a sequence of pieces: a run of letters, or one of the
\* characters that matter in a file name.
Regions == {<<"Boston">>}

\* cache_file = f"{region}_escape_rooms.json"
cache_file(region) == region \o <<"_escape_rooms.json">>
Names == {cache_file(r) : r \in Regions}

\* The simplified listings the directory returns at revision rev.
Listings(rev) == [i \in 1..rev |-> [name |-> i, rev |-> rev]]

NoListing == [name |-> 0, rev |-> 0]
Tok(t, v) == [t |-> t, v |-> v]
Hole == Tok("NUL", NoListing)

\* json.dump(data, file, indent=2): the text of a list, token by token.
json_dump(data) ==
    <<Tok("[", NoListing)>> \o [i \in 1..Len(data) |-> Tok("item", data[i])]
                            \o <<Tok("]", NoListing)>>

\* json.load(file): the list a text denotes, or JSONDecodeError.
json_load(text) ==
    LET n == Len(text)
        ok == /\ n >= 2 /\ text[1].t = "[" /\ text[n].t = "]"
              /\ \A i \in 2..(n - 1) : text[i].t = "item"
    IN  IF ok THEN [ok |-> TRUE, data |-> [i \in 1..(n - 2) |-> text[i + 1].v]]
        ELSE [ok |-> FALSE, data |-> << >>]

NoPut == [at |-> -1, data |-> << >>]
NoFile == [exists |-> FALSE, text |-> << >>, birth |-> 0, put |-> NoPut, failed |-> FALSE]

\* output_path.open("w"): a new file is born now, an existing one is truncated.
open_w(f) ==
    IF f.exists THEN [f EXCEPT !.text = << >>]
    ELSE [exists |-> TRUE, text |-> << >>, birth |-> now, put |-> NoPut, failed |-> FALSE]

\* file.write at offset pos of a file opened by open_w: bytes the file does
\* not have yet below pos read as zeros.
write(text, pos, toks) ==
    LET end == pos + Len(toks) - 1
        n == IF end > Len(text) THEN end ELSE Len(text)
    IN  [i \in 1..n |-> IF i >= pos /\ i <= end THEN toks[i - pos + 1]
                        ELSE IF i <= Len(text) THEN text[i] ELSE Hole]

\* Variant: the time of the last write instead of the time of birth.
get_kb_age_seconds_st_mtime(name) ==
    IF ~files[name].exists THEN 0 ELSE files[name].put.at

\* os.stat(DATA_DIR / name).st_birthtime, or 0 on FileNotFoundError (no such
\* file) and on AttributeError (the stat result has no st_birthtime).
get_kb_age_seconds(name) ==
    IF ~files[name].exists THEN 0
    ELSE IF ~st_birthtime THEN 0
    ELSE files[name].birth

\* cache_age = time.time() - get_kb_age_seconds(cache_file)
cache_age(name) == now - get_kb_age_seconds(name)

\* What a call of search_escape_rooms returns: listings or a str.
NoResult == [type |-> "none", data |-> << >>, text |-> ""]
ListResult(data) == [type |-> "list", data |-> data, text |-> ""]
StrResult(text) == [type |-> "str", data |-> << >>, text |-> text]

\* What a call finds in DATA_DIR when it starts (history).
Seen(f) == [exists |-> f.exists, birth |-> f.birth, put |-> f.put]

\* A process and its call: `left` is how many calls the process has yet to
\* make; `at` (time.time() of the call), `seen`, `path`, `fetches`, `opened`
\* (the call has opened the cache file for writing) and `fault` (what went
\* wrong first) are history.
NoRequest(pc, left) ==
    [pc |-> pc, left |-> left, region |-> << >>, at |-> 0, seen |-> Seen(NoFile), path |-> "",
     fetches |-> 0, opened |-> FALSE, fault |-> "", data |-> << >>, written |-> 0,
     result |-> NoResult]

BackoffIdle == backoff = [a |-> 0, b |-> 0, sample |-> 0, out |-> << >>]

\* The path DATA_DIR / name opens.  pathlib joins: an absolute name replaces
\* DATA_DIR; the system then walks the components, ".." leading to the
\* parent.  `depth` is the depth below DATA_DIR where the walk ends, `out` is
\* whether the walk has left DATA_DIR.
RECURSIVE walk(_, _, _, _)
walk(name, i, comp, at) ==
    LET step == IF comp = << >> \/ comp = <<".">> THEN at
                ELSE IF comp = <<".", ".">>
                THEN [depth |-> at.depth - 1, out |-> at.out \/ at.depth = 0]
                ELSE [depth |-> at.depth + 1, out |-> at.out]
    IN  IF i > Len(name) THEN step
        ELSE IF name[i] = "/" THEN walk(name, i + 1, << >>, step)
        ELSE walk(name, i + 1, Append(comp, name[i]), at)

data_path(name) ==
    LET absolute == Len(name) > 0 /\ name[1] = "/"
        end == walk(name, 1, << >>, [depth |-> 0, out |-> absolute])
    IN  [name |-> name, absolute |-> absolute, depth |-> end.depth, out |-> end.out]

KeyIdle == key = [region |-> << >>, path |-> << >>]

CacheIdle ==
    /\ st_birthtime = TRUE
    /\ now = Epoch
    /\ ticks = 0
    /\ files = [n \in Names |-> NoFile]
    /\ req = [p \in Procs |-> NoRequest("off", 0)]

-----------------------------------------------------------------------------
(* The hierarchy: plan_escape_room_trip, the planner it invokes and the    *)
(* guide and reservationist loops the planner's tool handlers invoke.       *)
Slots == {1, 2}              \* the tool calls of one response of the planner, by position

NoTrip == [pc |-> "off", result |-> << >>]
NoHandler == [pc |-> "idle", name |-> "", result |-> << >>]

\* No call of plan_escape_room_trip: the loop of the variables is on its own.
TripIdle ==
    /\ api_key = TRUE
    /\ trip = NoTrip
    /\ focus = 0
    /\ saved = [i \in {0} \cup Slots |-> << >>]
    /\ handlers = [i \in Slots |-> NoHandler]

\* The bound of the conversation of the loop in focus, and of the tool calls
\* of one response.
Room ==
    IF trip.pc = "off" THEN MaxMessages
    ELSE IF focus = 0 THEN MaxTripMessages
    ELSE MaxSubMessages
Width ==
    IF trip.pc = "off" THEN MaxMessages
    ELSE IF focus = 0 THEN Cardinality(Slots)
    ELSE 1

\* When the model may raise a rate-limit signal: at any call of a loop on
\* its own, during one streak of calls in a hierarchy.
Limiting == trip.pc = "off" \/ streak > 0 \/ signals = 0

\* graph.invoke({"messages": [HumanMessage(content=query)]}) at the entry of
\* the graph, every other field of AgentState at its default.
Entered ==
    /\ node = "agent"
    /\ sleeping = FALSE
    /\ messages = <<HumanMessage(Str("query", 0, ""))>>
    /\ retry_count = 0
    /\ rate_limited = FALSE
    /\ error_message = None
    /\ returned = << >>
    /\ owed = 0
    /\ elapsed = 0
    /\ exc = NoError
    /\ visited = <<"START", "agent">>
    /\ calls = 0
    /\ responses = 0
    /\ signals = 0
    /\ streak = 0
    /\ nextId = 0
    /\ toolLog = << >>
    /\ presented = << >>

\* The state an invoke() starts from.
LoopStart ==
    /\ kind \in Kinds
    /\ Entered

\* The Morty search agent (agents/morty_agent.py) at the entry of its graph.
MortyStart ==
    /\ kind = "morty"
    /\ Entered
    /\ mcp_tools = << >>
    /\ stray = {}

LoopInit ==
    /\ LoopStart
    /\ mcp_tools = IF kind = "reservationist" THEN PlaywrightTools ELSE << >>
    /\ stray = {}

Init == LoopInit /\ BackoffIdle /\ KeyIdle /\ CacheIdle /\ TripIdle

\* messages = [SystemMessage(content=SYSTEM_MESSAGE)] + list(state.messages):
\* what a model call is issued with.
model_input(k, msgs) == <<[role |-> "system", content |-> Str("SYSTEM_MESSAGE", 0, k),
                           tool_calls |-> NoCalls, tool_call_id |-> 0]>> \o msgs

\* The tool calls of a response: n calls with fresh ids and names chosen by the model.
NewToolCalls(names) == [i \in 1..Len(names) |-> [name |-> names[i], id |-> nextId + i]]

\* A response may request n tool calls when the response, the n results and
\* the answer that follows them fit into the conversation bound.
NameSeqs(k) ==
    UNION {[1..n -> ToolNames(k) \cup stray] :
            n \in {0} \cup {m \in 1..Width : Len(messages) + m + 2 <= Room}}

\* The content of a response that carries tool calls is a list of blocks (the
\* tool_use blocks are among them); the content of any other response is a str
\* or a list.
ContentKinds(names) == IF Len(names) > 0 THEN {"list"} ELSE {"str", "list"}

\* agent_node, the model call returns a message.
agent_node_response ==
    /\ node = "agent" /\ ~sleeping
    /\ \E names \in NameSeqs(kind) : \E ck \in ContentKinds(names) :
        LET response == AIMessage(Content(ck, "response", responses + 1, ""),
                                  NewToolCalls(names))
            update == response_update(messages, response)
        IN  /\ messages' = update.messages
            /\ retry_count' = update.retry_count
            /\ nextId' = nextId + Len(names)
            /\ Goto(should_continue(update.messages, update.retry_count, rate_limited),
                    update.messages)
    /\ calls' = calls + 1
    /\ responses' = responses + 1
    /\ streak' = 0
    /\ exc' = NoError
    /\ owed' = 0 /\ elapsed' = 0
    /\ presented' = bound_tools(kind, mcp_tools)
    /\ UNCHANGED <<aux, mcp_tools, stray, kind, sleeping, rate_limited, error_message, signals, toolLog>>

\* agent_node, the model call raises a rate-limit signal: up to the sleep when
\* retries are left, up to the return when they are exhausted.
agent_node_rate_limit ==
    /\ node = "agent" /\ ~sleeping
    /\ signals < MaxSignals /\ Limiting
    /\ \E e \in ModelErrors :
        /\ is_rate_limit(e)
        /\ LET new_retry_count == retry_count + 1
           IN  IF retries_exhausted(new_retry_count)
               THEN /\ exc' = NoError
                    /\ rate_limited' = TRUE
                    /\ error_message' = RATE_LIMIT_TEXT
                    /\ owed' = 0 /\ elapsed' = 0
                    /\ Goto(should_continue(messages, retry_count, TRUE), messages)
                    /\ UNCHANGED sleeping
               ELSE /\ exc' = e
                    /\ \E j \in 0..(JitterDen - 1) :
                           owed' = calculate_backoff_delay(retry_count, j)
                    /\ elapsed' = 0
                    /\ sleeping' = TRUE
                    /\ UNCHANGED <<rate_limited, error_message, node, visited, returned>>
    /\ calls' = calls + 1
    /\ signals' = signals + 1
    /\ streak' = streak + 1
    /\ presented' = bound_tools(kind, mcp_tools)
    /\ UNCHANGED <<aux, mcp_tools, stray, kind, messages, retry_count, responses, nextId, toolLog>>

\* Variant: the retry puts a note about the wait into the conversation.
retry_update_note(msgs, rc) ==
    [messages |-> Append(msgs, AIMessage(Str("retry", rc + 1, ""), NoCalls)),
     retry_count |-> rc + 1]

\* return {"retry_count": new_retry_count}, merged into the state: the
\* messages are not among the keys.
retry_update(msgs, rc) == [messages |-> msgs, retry_count |-> rc + 1]

\* agent_node, the sleep is over: return {"retry_count": new_retry_count}.
agent_node_retry ==
    /\ node = "agent" /\ sleeping
    /\ elapsed' = sleep(owed)
    /\ sleeping' = FALSE
    /\ exc' = NoError
    /\ LET update == retry_update(messages, retry_count)
       IN  /\ messages' = update.messages
           /\ retry_count' = update.retry_count
           /\ Goto(should_continue(update.messages, update.retry_count, rate_limited),
                   update.messages)
    /\ UNCHANGED <<aux, mcp_tools, stray, presented, kind, rate_limited, error_message, owed,
                   calls, responses, signals, streak, nextId, toolLog>>

\* agent_node, the model call raises anything else: the exception leaves
\* agent_node and invoke().
agent_node_raise ==
    /\ node = "agent" /\ ~sleeping
    /\ \E e \in ModelErrors :
        /\ ~is_rate_limit(e)
        /\ exc' = e
    /\ node' = "raised"
    /\ calls' = calls + 1
    /\ owed' = 0 /\ elapsed' = 0
    /\ presented' = bound_tools(kind, mcp_tools)
    /\ UNCHANGED <<aux, mcp_tools, stray, kind, sleeping, state, returned, visited, responses,
                   signals, streak, nextId, toolLog>>

-----------------------------------------------------------------------------
(* Tool dispatch. *)
\* What a handler does with a call: it returns a result or it raises.
ToolOutcomes == {"result", "raise"}

\* The body of the for loop of tool_node for one tool call: the content of its
\* ToolMessage, either the text of the result of mcp_session.call_tool (its
\* content items joined, str(result) when it has none) or the error description.
tool_content(tool_call, outcome) ==
    IF outcome = "result" THEN Str("result", tool_call.id, tool_call.name)
    ELSE Str("Error executing", tool_call.id, tool_call.name)

\* Variant: a call whose handler raised gets no ToolMessage.
tool_messages_skip_failed(tool_calls, outcome) ==
    LET all == [i \in 1..Len(tool_calls) |->
                    ToolMessage(tool_content(tool_calls[i], outcome[i]), tool_calls[i].id)]
        IsResult(m) == m.content.tag = "result"
    IN  SelectSeq(all, IsResult)

\* Variant: the results first, the error descriptions after them.
tool_messages_errors_last(tool_calls, outcome) ==
    LET all == [i \in 1..Len(tool_calls) |->
                    ToolMessage(tool_content(tool_calls[i], outcome[i]), tool_calls[i].id)]
        IsResult(m) == m.content.tag = "result"
        IsError(m) == m.content.tag # "result"
    IN  SelectSeq(all, IsResult) \o SelectSeq(all, IsError)

\* The for loop of tool_node: one ToolMessage per tool call, in the order of the calls.
tool_messages(tool_calls, outcome) ==
    [i \in 1..Len(tool_calls) |->
        ToolMessage(tool_content(tool_calls[i], outcome[i]), tool_calls[i].id)]

\* The handler invocations made by that loop.
invocations(tool_calls, outcome) ==
    [i \in 1..Len(tool_calls) |->
        [id |-> tool_calls[i].id, name |-> tool_calls[i].name, outcome |-> outcome[i]]]

\* Variant: no try/except around call_tool, the first exception leaves the node.
tool_node_no_catch ==
    /\ node = "tools" /\ kind = "reservationist"
    /\ LET tool_calls == Last(messages).tool_calls
       IN  \E outcome \in [1..Len(tool_calls) -> ToolOutcomes] :
            LET msgs == messages \o tool_messages(tool_calls, outcome)
                failing == {i \in 1..Len(tool_calls) : outcome[i] = "raise"}
                first == CHOOSE i \in failing : \A h \in failing : i <= h
            IN  IF failing = {}
                THEN /\ messages' = msgs
                     /\ toolLog' = toolLog \o invocations(tool_calls, outcome)
                     /\ Goto("agent", msgs)
                ELSE /\ node' = "raised"
                     /\ toolLog' = toolLog \o SubSeq(invocations(tool_calls, outcome), 1, first)
                     /\ UNCHANGED <<messages, visited, returned>>
    /\ UNCHANGED <<aux, mcp_tools, stray, presented, kind, sleeping, retry_count, rate_limited, error_message,
                   owed, elapsed, exc, calls, responses, signals, streak, nextId>>

\* tool_node of the reservationist (create_tool_node).
tool_node ==
    /\ node = "tools" /\ kind = "reservationist"
    /\ LET last_message == Last(messages)
       IN  IF last_message.role # "ai" \/ Len(last_message.tool_calls) = 0
           THEN /\ UNCHANGED <<messages, toolLog>>
                /\ Goto("agent", messages)
           ELSE \E outcome \in [1..Len(last_message.tool_calls) -> ToolOutcomes] :
                LET msgs == messages \o tool_messages(last_message.tool_calls, outcome)
                IN  /\ messages' = msgs
                    /\ toolLog' = toolLog \o invocations(last_message.tool_calls, outcome)
                    /\ Goto("agent", msgs)
    /\ UNCHANGED <<aux, mcp_tools, stray, presented, kind, sleeping, retry_count, rate_limited, error_message,
                   owed, elapsed, exc, calls, responses, signals, streak, nextId>>

\* The handlers of the guide and the planner that let an exception out:
\* search_escape_rooms and check_room_availability catch Exception,
\* get_escape_room_recommendations has no handler around guide_agent.invoke.
MayRaise(name) == name = "get_escape_room_recommendations"

PrebuiltOutcomes(tool_calls) ==
    {o \in [1..Len(tool_calls) -> ToolOutcomes] :
        \A i \in 1..Len(tool_calls) : o[i] = "raise" => MayRaise(tool_calls[i].name)}

\* tool_node of the guide and of the planner: langgraph.prebuilt.ToolNode(tools).
\* It answers every tool call of the last message with one ToolMessage, in the
\* order of the calls.  Whether an exception of a handler becomes an error
\* ToolMessage or leaves the node depends on the installed version, so both happen.
ToolNode ==
    /\ node = "tools" /\ kind \in {"guide", "planner", "morty"}
    /\ LET tool_calls == Last(messages).tool_calls
       IN  \E outcome \in PrebuiltOutcomes(tool_calls), handle_tool_errors \in BOOLEAN :
            LET msgs == messages \o tool_messages(tool_calls, outcome)
                failed == \E i \in 1..Len(tool_calls) : outcome[i] = "raise"
            IN  /\ toolLog' = toolLog \o invocations(tool_calls, outcome)
                /\ IF failed /\ ~handle_tool_errors
                   THEN /\ node' = "raised"
                        /\ UNCHANGED <<messages, visited, returned>>
                   ELSE /\ messages' = msgs
                        /\ Goto("agent", msgs)
    /\ UNCHANGED <<aux, mcp_tools, stray, presented, kind, sleeping, retry_count, rate_limited, error_message,
                   owed, elapsed, exc, calls, responses, signals, streak, nextId>>

\* handle_rate_limit_error, the error node.
handle_rate_limit_error ==
    /\ node = "error"
    /\ LET msgs == Append(messages, AIMessage(Str(error_msg(error_message), 0, ""), NoCalls))
       IN  /\ messages' = msgs
           /\ Goto("END", msgs)
    /\ UNCHANGED <<aux, mcp_tools, stray, presented, kind, sleeping, retry_count, rate_limited, error_message,
                   owed, elapsed, exc, calls, responses, signals, streak, nextId,
                   toolLog>>

Next ==
    \/ agent_node_response
    \/ agent_node_rate_limit
    \/ agent_node_retry
    \/ agent_node_raise
    \/ tool_node
    \/ ToolNode
    \/ handle_rate_limit_error

Spec == Init /\ [][Next]_vars

\* The guide's graph on its own: its tools node is the prebuilt ToolNode.
GuideInit == Init /\ kind = "guide"

GuideNext ==
    \/ agent_node_response
    \/ agent_node_rate_limit
    \/ agent_node_retry
    \/ agent_node_raise
    \/ ToolNode
    \/ handle_rate_limit_error

\* invoke() keeps running the node the graph is at until END or an exception:
\* a model call returns or raises, a sleep returns, a tool dispatch returns.
GuideFairSpec == GuideInit /\ [][GuideNext]_vars /\ WF_vars(GuideNext)

\* What browser hosts list: nothing, only tools outside ALLOWED_TOOLS, or both kinds.
HostLists == {<< >>, <<"browser_evaluate", "browser_tab_list">>, PlaywrightTools}

\* The reservationist's graph on its own, over any of these hosts.
HostInit ==
    /\ LoopStart /\ kind = "reservationist"
    /\ mcp_tools \in HostLists
    /\ stray = {}
    /\ BackoffIdle /\ KeyIdle /\ CacheIdle /\ TripIdle

HostNext ==
    \/ agent_node_response
    \/ agent_node_rate_limit
    \/ agent_node_retry
    \/ agent_node_raise
    \/ tool_node
    \/ handle_rate_limit_error

HostSpec == HostInit /\ [][HostNext]_vars

\* The reservationist's graph with a model that also calls the tool its
\* system prompt names and ALLOWED_TOOLS leaves out: SYSTEM_MESSAGE says
\* "Check browser_tab_list if you're unsure which tab you're on".
DispatchInit ==
    /\ LoopStart /\ kind = "reservationist"
    /\ mcp_tools = PlaywrightTools
    /\ stray = {"browser_tab_list"}
    /\ BackoffIdle /\ KeyIdle /\ CacheIdle /\ TripIdle

DispatchSpec == DispatchInit /\ [][HostNext]_vars

-----------------------------------------------------------------------------
(* The planner hierarchy.  The variables of a loop hold the loop in focus,  *)
(* `saved` holds the others; the handlers of the tool calls of one response *)
(* of the planner run in the threads of the tools node's executor, so the   *)
(* loops they invoke are started and run in any order.                      *)
beside_trip == <<backoff, key, st_birthtime, now, ticks, files, req>>

NO_API_KEY == "Error: ANTHROPIC_API_KEY not set in environment"
AVAILABILITY_ERROR == "Error checking availability: {result.error}"
AVAILABILITY == "Availability for {result.escape_room_name} at {result.venue_name}:"
AVAILABILITY_EXCEPTION == "Error checking availability for {room_name}: {e}"

\* The loop in focus.
Frame ==
    [kind |-> kind, node |-> node, sleeping |-> sleeping, messages |-> messages,
     retry_count |-> retry_count, rate_limited |-> rate_limited,
     error_message |-> error_message, returned |-> returned, owed |-> owed,
     elapsed |-> elapsed, exc |-> exc, visited |-> visited, calls |-> calls,
     responses |-> responses, streak |-> streak, nextId |-> nextId,
     toolLog |-> toolLog, mcp_tools |-> mcp_tools, stray |-> stray,
     presented |-> presented]

\* graph.invoke({"messages": [HumanMessage(content=query)]}): a new AgentState
\* with the defaults of its fields, at the entry of the graph.
sub_state(k, host) ==
    [kind |-> k, node |-> "agent", sleeping |-> FALSE,
     messages |-> <<HumanMessage(Str("query", 0, ""))>>,
     retry_count |-> 0, rate_limited |-> FALSE, error_message |-> None,
     returned |-> << >>, owed |-> 0, elapsed |-> 0, exc |-> NoError,
     visited |-> <<"START", "agent">>, calls |-> 0, responses |-> 0, streak |-> 0,
     nextId |-> 0, toolLog |-> << >>, mcp_tools |-> host, stray |-> {},
     presented |-> << >>]

\* The loop f comes into focus.
Load(f) ==
    /\ kind' = f.kind /\ node' = f.node /\ sleeping' = f.sleeping
    /\ messages' = f.messages /\ retry_count' = f.retry_count
    /\ rate_limited' = f.rate_limited /\ error_message' = f.error_message
    /\ returned' = f.returned /\ owed' = f.owed /\ elapsed' = f.elapsed
    /\ exc' = f.exc /\ visited' = f.visited /\ calls' = f.calls
    /\ responses' = f.responses /\ streak' = f.streak /\ nextId' = f.nextId
    /\ toolLog' = f.toolLog /\ mcp_tools' = f.mcp_tools /\ stray' = f.stray
    /\ presented' = f.presented

\* plan_escape_room_trip is called, with or without the API key in the environment.
TripInit ==
    /\ kind = "planner" /\ node = "START" /\ sleeping = FALSE /\ messages = << >>
    /\ retry_count = 0 /\ rate_limited = FALSE /\ error_message = None
    /\ returned = << >> /\ owed = 0 /\ elapsed = 0 /\ exc = NoError
    /\ visited = <<"START">> /\ calls = 0 /\ responses = 0 /\ signals = 0
    /\ streak = 0 /\ nextId = 0 /\ toolLog = << >> /\ mcp_tools = << >> /\ stray = {}
    /\ presented = << >>
    /\ BackoffIdle /\ KeyIdle /\ CacheIdle
    /\ api_key \in BOOLEAN
    /\ trip = [pc |-> "called", result |-> << >>]
    /\ focus = 0
    /\ saved = [i \in {0} \cup Slots |-> << >>]
    /\ handlers = [i \in Slots |-> NoHandler]

\* Variant: the environment is not looked at.
key_missing_never(k) == FALSE

\* if not os.getenv("ANTHROPIC_API_KEY")
key_missing(k) == ~k

\* plan_escape_room_trip up to planner.invoke.
plan_escape_room_trip ==
    /\ trip.pc = "called"
    /\ IF key_missing(api_key)
       THEN /\ trip' = [pc |-> "returned", result |-> <<Str(NO_API_KEY, 0, "")>>]
            /\ UNCHANGED loop
       ELSE /\ trip' = [trip EXCEPT !.pc = "invoked"]
            /\ Load(sub_state("planner", << >>))
            /\ UNCHANGED signals
    /\ UNCHANGED <<api_key, focus, saved, handlers, beside_trip>>

\* plan_escape_room_trip from the return of planner.invoke: the content of the
\* final message, or the exception invoke let out.
plan_escape_room_trip_return ==
    /\ trip.pc = "invoked" /\ focus = 0
    /\ node \in {"END", "raised"}
    /\ trip' = IF node = "END" THEN [pc |-> "returned", result |-> <<returned[1].text>>]
               ELSE [pc |-> "raised", result |-> << >>]
    /\ UNCHANGED <<loop, api_key, focus, saved, handlers, beside_trip>>

\* The tool call a handler slot answers: the i-th of the planner's last message.
Unanswered(i) ==
    /\ trip.pc = "invoked" /\ focus = 0 /\ kind = "planner" /\ node = "tools"
    /\ i \in 1..Len(Last(messages).tool_calls)
    /\ handlers[i].pc = "idle"

Started(i, name) == [pc |-> "running", name |-> name, result |-> << >>]

\* get_escape_room_recommendations up to guide_agent.invoke.
get_escape_room_recommendations(i) ==
    /\ Unanswered(i)
    /\ Last(messages).tool_calls[i].name = "get_escape_room_recommendations"
    /\ handlers' = [handlers EXCEPT ![i] = Started(i, "get_escape_room_recommendations")]
    /\ saved' = [saved EXCEPT ![i] = <<sub_state("guide", << >>)>>]
    /\ UNCHANGED <<loop, api_key, trip, focus, beside_trip>>

\* stdio_client, ClientSession, session.initialize, session.list_tools.
SessionOutcomes == {"ok", "raise"}

\* check_room_availability up to agent.ainvoke of check_availability: without
\* the API key check_availability returns a BookingAvailability with error
\* set; when the browser session cannot be set up the exception is caught.
check_room_availability(i) ==
    /\ Unanswered(i)
    /\ Last(messages).tool_calls[i].name = "check_room_availability"
    /\ \E session \in SessionOutcomes :
        IF key_missing(api_key)
        THEN /\ handlers' = [handlers EXCEPT ![i] =
                    [pc |-> "returned", name |-> "check_room_availability",
                     result |-> <<Str(AVAILABILITY_ERROR, 0, NO_API_KEY)>>]]
             /\ UNCHANGED saved
        ELSE IF session = "raise"
        THEN /\ handlers' = [handlers EXCEPT ![i] =
                    [pc |-> "returned", name |-> "check_room_availability",
                     result |-> <<Str(AVAILABILITY_EXCEPTION, 0, "session")>>]]
             /\ UNCHANGED saved
        ELSE /\ handlers' = [handlers EXCEPT ![i] = Started(i, "check_room_availability")]
             /\ saved' = [saved EXCEPT ![i] = <<sub_state("reservationist", PlaywrightTools)>>]
    /\ UNCHANGED <<loop, api_key, trip, focus, beside_trip>>

\* The thread of handler j is scheduled, from the tools node of the planner
\* or while the sub-loop in focus is in a backoff wait.  The loops share no
\* variable: the orders left out differ in the positions of independent steps.
Switch(j) ==
    /\ trip.pc = "invoked"
    /\ focus = 0 \/ sleeping
    /\ j # focus /\ saved[j] # << >>
    /\ handlers[j].pc = "running"
    /\ saved' = [saved EXCEPT ![focus] = <<Frame>>, ![j] = << >>]
    /\ Load(saved[j][1])
    /\ focus' = j
    /\ UNCHANGED <<signals, api_key, trip, handlers, beside_trip>>

\* The sub-loop of handler i is over: invoke() has returned or let an exception out.
Over(i, name) ==
    /\ trip.pc = "invoked" /\ focus = i
    /\ handlers[i].pc = "running" /\ handlers[i].name = name
    /\ node \in {"END", "raised"}

\* Variant: the planner and the sub-loop share retry_count, rate_limited and
\* error_message.
resumed_shared(parent, child) ==
    [parent EXCEPT !.retry_count = child.retry_count,
                   !.rate_limited = child.rate_limited,
                   !.error_message = child.error_message]

\* The planner's state after a handler: the handler keeps the content of the
\* sub-loop's final message and drops the rest of the sub-loop's state.
resumed(parent, child) == parent

\* The handler is done: the planner's tools node is where the thread goes back to.
Back ==
    /\ Load(resumed(saved[0][1], Frame))
    /\ focus' = 0
    /\ saved' = [saved EXCEPT ![0] = << >>]
    /\ UNCHANGED <<signals, api_key, trip, beside_trip>>

\* get_escape_room_recommendations from the return of guide_agent.invoke: the
\* content of the final message; an exception of invoke leaves the handler.
get_escape_room_recommendations_return(i) ==
    /\ Over(i, "get_escape_room_recommendations")
    /\ handlers' = [handlers EXCEPT ![i] =
            IF node = "END" THEN [@ EXCEPT !.pc = "returned", !.result = <<returned[1].text>>]
            ELSE [@ EXCEPT !.pc = "raised"]]
    /\ Back

\* check_room_availability from the return of check_availability_sync: the
\* report of the BookingAvailability, or the text of the except clause.
check_room_availability_return(i) ==
    /\ Over(i, "check_room_availability")
    /\ handlers' = [handlers EXCEPT ![i] =
            [@ EXCEPT !.pc = "returned",
                      !.result =
                        IF node = "raised" THEN <<Str(AVAILABILITY_EXCEPTION, 0, "agent")>>
                        ELSE IF returned[1].error # None
                        THEN <<Str(AVAILABILITY_ERROR, 0, returned[1].error)>>
                        ELSE <<Str(AVAILABILITY, returned[1].booking_notes.n,
                                   returned[1].booking_notes.tag)>>]]
    /\ Back

\* The tools node of the planner once the handlers of all tool calls are
\* done: one ToolMessage per tool call, in the order of the calls; whether an
\* exception of a handler becomes an error ToolMessage or leaves the node
\* depends on the installed version.
ToolNode_results ==
    /\ trip.pc = "invoked" /\ focus = 0 /\ kind = "planner" /\ node = "tools"
    /\ LET tool_calls == Last(messages).tool_calls
           outcome == [i \in 1..Len(tool_calls) |->
                        IF handlers[i].pc = "raised" THEN "raise" ELSE "result"]
           msgs == messages \o
                    [i \in 1..Len(tool_calls) |->
                        ToolMessage(IF handlers[i].pc = "raised"
                                    THEN tool_content(tool_calls[i], "raise")
                                    ELSE handlers[i].result[1], tool_calls[i].id)]
       IN  /\ \A i \in 1..Len(tool_calls) : handlers[i].pc \in {"returned", "raised"}
           /\ toolLog' = toolLog \o invocations(tool_calls, outcome)
           /\ \E handle_tool_errors \in BOOLEAN :
                IF (\E i \in 1..Len(tool_calls) : outcome[i] = "raise") /\ ~handle_tool_errors
                THEN /\ node' = "raised"
                     /\ UNCHANGED <<messages, visited, returned>>
                ELSE /\ messages' = msgs
                     /\ Goto("agent", msgs)
    /\ handlers' = [i \in Slots |-> NoHandler]
    /\ UNCHANGED <<kind, sleeping, retry_count, rate_limited, error_message, owed,
                   elapsed, exc, calls, responses, signals, streak, nextId, mcp_tools, stray,
                   presented, api_key, trip, focus, saved, beside_trip>>

\* The tools node of the guide.
GuideToolNode == kind = "guide" /\ ToolNode

TripNext ==
    \/ plan_escape_room_trip
    \/ plan_escape_room_trip_return
    \/ agent_node_response
    \/ agent_node_rate_limit
    \/ agent_node_retry
    \/ agent_node_raise
    \/ handle_rate_limit_error
    \/ tool_node
    \/ GuideToolNode
    \/ \E i \in Slots : get_escape_room_recommendations(i)
    \/ \E i \in Slots : check_room_availability(i)
    \/ \E j \in Slots : Switch(j)
    \/ \E i \in Slots : get_escape_room_recommendations_return(i)
    \/ \E i \in Slots : check_room_availability_return(i)
    \/ ToolNode_results

TripSpec == TripInit /\ [][TripNext]_vars

-----------------------------------------------------------------------------
(* The Morty search agent (agents/morty_agent.py): agent, tools and extract *)
(* with no handler around the model calls.                                  *)
\* Variant: the tool calls of the response are not looked at.
morty_should_continue_extract(msgs) == "extract"

\* should_continue of morty_agent.py.
morty_should_continue(msgs) ==
    IF Last(msgs).role = "ai" /\ Len(Last(msgs).tool_calls) > 0 THEN "tools"
    ELSE "extract"

\* agent_node, the model call returns a message.
morty_agent_node_response ==
    /\ kind = "morty" /\ node = "agent"
    /\ \E names \in NameSeqs(kind) : \E ck \in ContentKinds(names) :
        LET response == AIMessage(Content(ck, "response", responses + 1, ""),
                                  NewToolCalls(names))
            msgs == Append(messages, response)
        IN  /\ messages' = msgs
            /\ nextId' = nextId + Len(names)
            /\ Goto(morty_should_continue(msgs), msgs)
    /\ calls' = calls + 1
    /\ responses' = responses + 1
    /\ presented' = bound_tools(kind, mcp_tools)
    /\ UNCHANGED <<aux, mcp_tools, stray, kind, sleeping, retry_count, rate_limited,
                   error_message, owed, elapsed, exc, signals, streak, toolLog>>

\* agent_node or extract_structured_output, the model call raises: a
\* rate-limit signal or anything else leaves the node and invoke().
morty_model_call_raise ==
    /\ kind = "morty" /\ node \in {"agent", "extract"}
    /\ signals < MaxSignals
    /\ \E e \in ModelErrors :
        /\ exc' = e
        /\ signals' = IF is_rate_limit(e) THEN signals + 1 ELSE signals
    /\ node' = "raised"
    /\ calls' = calls + 1
    /\ presented' = IF node = "agent" THEN bound_tools(kind, mcp_tools) ELSE << >>
    /\ UNCHANGED <<aux, mcp_tools, stray, kind, sleeping, state, returned, owed, elapsed,
                   visited, responses, streak, nextId, toolLog>>

\* extract_structured_output, the model call returns an EscapeRoomList of some
\* rooms: the escape_rooms of the state are set and the graph is at END.
extract_structured_output ==
    /\ kind = "morty" /\ node = "extract"
    /\ node' = "END"
    /\ visited' = Append(visited, "END")
    /\ \E rooms \in 0..MaxRooms :
        returned' = <<[text |-> Str("escape_rooms", rooms, "")]>>
    /\ calls' = calls + 1
    /\ responses' = responses + 1
    /\ presented' = << >>
    /\ UNCHANGED <<aux, mcp_tools, stray, kind, sleeping, state, owed, elapsed, exc,
                   signals, streak, nextId, toolLog>>

\* The tools node of the Morty agent.
MortyToolNode == kind = "morty" /\ ToolNode

MortyInit ==
    /\ MortyStart
    /\ BackoffIdle /\ KeyIdle /\ CacheIdle /\ TripIdle

MortyNext ==
    \/ morty_agent_node_response
    \/ morty_model_call_raise
    \/ extract_structured_output
    \/ MortyToolNode

MortySpec == MortyInit /\ [][MortyNext]_vars

-----------------------------------------------------------------------------
(* calculate_backoff_delay on its own: applied to the retry counts a and b  *)
(* with the same sample of random.random().                                 *)
BackoffInit ==
    /\ LoopInit /\ kind = "guide"
    /\ KeyIdle /\ CacheIdle /\ TripIdle
    /\ backoff \in [a : 0..MaxAttempt, b : 0..MaxAttempt,
                     sample : 0..(JitterDen - 1), out : {<< >>}]

calculate_backoff_delay_call ==
    /\ backoff.out = << >>
    /\ backoff' = [backoff EXCEPT !.out =
            <<[base |-> capped_delay(backoff.a),
               delay |-> calculate_backoff_delay(backoff.a, backoff.sample)],
              [base |-> capped_delay(backoff.b),
               delay |-> calculate_backoff_delay(backoff.b, backoff.sample)]>>]
    /\ UNCHANGED <<loop, key, st_birthtime, now, ticks, files, req, hierarchy>>

BackoffSpec == BackoffInit /\ [][calculate_backoff_delay_call]_vars

-----------------------------------------------------------------------------
(* The cache file of a region on its own: the name search_escape_rooms and  *)
(* _fetch_escape_rooms build from a region name, and the path dump_kb and   *)
(* read_kb open for it.                                                     *)
Pieces == {"Boston", " ", ",", "/", "."}

RegionNames == UNION {[1..n -> Pieces] : n \in 1..MaxRegionLen}

KeyInit ==
    /\ LoopInit /\ kind = "guide"
    /\ BackoffIdle /\ CacheIdle /\ TripIdle
    /\ key \in [region : RegionNames, path : {<< >>}]

cache_file_call ==
    /\ key.path = << >>
    /\ key' = [key EXCEPT !.path = <<data_path(cache_file(key.region))>>]
    /\ UNCHANGED <<loop, backoff, st_birthtime, now, ticks, files, req, hierarchy>>

KeySpec == KeyInit /\ [][cache_file_call]_vars

-----------------------------------------------------------------------------
(* search_escape_rooms (tools/tools.py) over the files of DATA_DIR.  A call *)
(* is split where it touches the file system: the stat of the cache file,   *)
(* the read of the cached text, the open that truncates, the writes.        *)
GeoOutcomes == {"found", "none", "raise"}      \* geolocator.geocode(region)
HttpOutcomes == {"ok", "status", "raise"}      \* httpx.post, raise_for_status, response.json
IOOutcomes == {"ok", "OSError"}                \* a call into the file system

COULD_NOT_FIND == "Could not find coordinates for '{region}'. Try a more specific location."
API_ERROR == "API error searching for escape rooms: {e}"
SEARCH_ERROR == "Error searching for escape rooms: {e}"

\* An exception that leaves search_escape_rooms.
Raised(e) == [type |-> "raise", data |-> << >>, text |-> e]

\* Variant: the except clause for httpx.HTTPStatusError alone.
except_clauses_status_only(e) ==
    IF e = "HTTPStatusError" THEN StrResult(API_ERROR) ELSE Raised(e)

\* except httpx.HTTPStatusError as e: return f"API error ...";
\* except Exception as e: return f"Error searching ...".
except_clauses(e) ==
    IF e = "HTTPStatusError" THEN StrResult(API_ERROR) ELSE StrResult(SEARCH_ERROR)

\* return result
Return(p, r, fault, result) ==
    req' = [req EXCEPT ![p] =
                [r EXCEPT !.pc = "done", !.fault = fault, !.data = << >>, !.written = 0,
                          !.result = result]]

\* search_escape_rooms up to the branch on cache_age.
search_escape_rooms(p) ==
    /\ req[p].pc \in {"idle", "done"}
    /\ req[p].left > 0
    /\ \E region \in Regions, geo \in GeoOutcomes, io \in IOOutcomes :
        LET name == cache_file(region)
            r == [NoRequest("called", req[p].left - 1) EXCEPT
                        !.region = region, !.at = now, !.seen = Seen(files[name])]
        IN  CASE geo = "raise" -> Return(p, r, "geocode", except_clauses("GeocoderServiceError"))
              [] geo = "none" -> Return(p, r, "no_location", StrResult(COULD_NOT_FIND))
              [] geo = "found" /\ io # "ok" -> Return(p, r, "storage", except_clauses("OSError"))
              [] OTHER ->
                    LET path == IF cache_age(name) < CACHE_DURATION_SECONDS
                                THEN "read_kb" ELSE "_fetch_escape_rooms"
                    IN  req' = [req EXCEPT ![p] = [r EXCEPT !.pc = path, !.path = path]]
    /\ UNCHANGED <<beside_cache, st_birthtime, now, ticks, files>>

\* return read_kb(cache_file): open, json.load.
read_kb(p) ==
    /\ req[p].pc = "read_kb"
    /\ \E io \in IOOutcomes :
        LET f == files[cache_file(req[p].region)]
            doc == json_load(f.text)
        IN  IF io # "ok" \/ ~f.exists
            THEN Return(p, req[p], "storage", except_clauses("OSError"))
            ELSE IF ~doc.ok
            THEN Return(p, req[p], "decode", except_clauses("JSONDecodeError"))
            ELSE Return(p, req[p], "", ListResult(doc.data))
    /\ UNCHANGED <<beside_cache, st_birthtime, now, ticks, files>>

\* _fetch_escape_rooms up to the open("w") of dump_kb.
_fetch_escape_rooms(p) ==
    /\ req[p].pc = "_fetch_escape_rooms"
    /\ \E http \in HttpOutcomes, rev \in 1..MaxRevs, io \in IOOutcomes :
        LET name == cache_file(req[p].region)
            r == [req[p] EXCEPT !.fetches = @ + 1]
        IN  CASE http = "status" ->
                    Return(p, r, "status", except_clauses("HTTPStatusError")) /\ UNCHANGED files
              [] http = "raise" ->
                    Return(p, r, "http", except_clauses("RequestError")) /\ UNCHANGED files
              [] http = "ok" /\ io # "ok" ->
                    Return(p, r, "storage", except_clauses("OSError")) /\ UNCHANGED files
              [] OTHER ->
                    /\ files' = [files EXCEPT ![name] = open_w(@)]
                    /\ req' = [req EXCEPT ![p] =
                            [r EXCEPT !.pc = "dump_kb", !.opened = TRUE,
                                      !.data = Listings(rev), !.written = 0]]
    /\ UNCHANGED <<beside_cache, st_birthtime, now, ticks>>

\* json.dump(data, file, indent=2) of dump_kb, some more of the text at a
\* time; after the last of it the file is closed and _fetch_escape_rooms
\* returns simplified.
dump_kb(p) ==
    /\ req[p].pc = "dump_kb"
    /\ LET name == cache_file(req[p].region)
           toks == json_dump(req[p].data)
           at == req[p].written
       IN  \E k \in 1..(Len(toks) - at), io \in IOOutcomes :
            IF io # "ok"
            THEN /\ Return(p, req[p], "storage", except_clauses("OSError"))
                 /\ files' = [files EXCEPT ![name].failed = TRUE]
            ELSE /\ files' = [files EXCEPT ![name] =
                        [@ EXCEPT !.text = write(@, at + 1, SubSeq(toks, at + 1, at + k)),
                                  !.put = IF at + k = Len(toks)
                                          THEN [at |-> now, data |-> req[p].data] ELSE @]]
                 /\ IF at + k = Len(toks)
                    THEN Return(p, req[p], "", ListResult(req[p].data))
                    ELSE req' = [req EXCEPT ![p].written = at + k]
    /\ UNCHANGED <<beside_cache, st_birthtime, now, ticks>>

\* Time passes between requests.
Tick ==
    /\ ticks < MaxTicks
    /\ \A p \in Procs : req[p].pc \in {"off", "idle", "done"}
    /\ \E d \in TickDays : now' = now + d * Day
    /\ ticks' = ticks + 1
    /\ UNCHANGED <<beside_cache, st_birthtime, files, req>>

\* One process, request after request, on either kind of platform.
CacheInit ==
    /\ LoopInit /\ kind = "guide"
    /\ BackoffIdle /\ KeyIdle /\ TripIdle
    /\ st_birthtime \in BOOLEAN
    /\ now = Epoch
    /\ ticks = 0
    /\ files = [n \in Names |-> NoFile]
    /\ req = [p \in Procs |-> IF p = 1 THEN NoRequest("idle", MaxCalls)
                                         ELSE NoRequest("off", 0)]

CacheNext ==
    \/ Tick
    \/ \E p \in Procs : search_escape_rooms(p)
    \/ \E p \in Procs : read_kb(p)
    \/ \E p \in Procs : _fetch_escape_rooms(p)
    \/ \E p \in Procs : dump_kb(p)

CacheSpec == CacheInit /\ [][CacheNext]_vars

\* Two processes at once, within one moment.
RaceInit ==
    /\ LoopInit /\ kind = "guide"
    /\ BackoffIdle /\ KeyIdle /\ TripIdle
    /\ st_birthtime \in BOOLEAN
    /\ now = Epoch
    /\ ticks = 0
    /\ files = [n \in Names |-> NoFile]
    /\ req = [p \in Procs |-> NoRequest("idle", IF p = 1 THEN MaxRaceCalls ELSE 1)]

RaceNext ==
    \/ \E p \in Procs : search_escape_rooms(p)
    \/ \E p \in Procs : read_kb(p)
    \/ \E p \in Procs : _fetch_escape_rooms(p)
    \/ \E p \in Procs : dump_kb(p)

RaceSpec == RaceInit /\ [][RaceNext]_vars

-----------------------------------------------------------------------------
(* Properties. *)
HasCalls(m) == m.role = "ai" /\ Len(m.tool_calls) > 0
IsAnswer(m) == m.role = "ai" /\ Len(m.tool_calls) = 0
ErrorVisited == "error" \in Range(visited)
ReturnedText == IF kind = "reservationist" THEN returned[1].booking_notes ELSE returned[1].text
RateLimitMessage == AIMessage(Str(RATE_LIMIT_TEXT, 0, ""), NoCalls)

\* The run in which the model raised MAX_RETRIES rate-limit signals and then
\* answered without tool calls.
RetriedThenAnswered ==
    /\ calls = MAX_RETRIES + 1 /\ signals = MAX_RETRIES /\ responses = 1
    /\ IsAnswer(Last(messages))

\* C1: MAX_RETRIES consecutive rate-limit signals followed by an answer without
\* tool calls end the run at END with retry_count = 0, rate_limited = FALSE and
\* no visit of the error node; the error node is visited exactly when
\* MAX_RETRIES + 1 signals came in a row, and that run ends with the
\* rate-limiting text as its last message.
C1_RetryBudget ==
    /\ RetriedThenAnswered =>
        node = "END" /\ retry_count = 0 /\ ~rate_limited /\ ~ErrorVisited
    /\ ErrorVisited <=> streak = MAX_RETRIES + 1
    /\ streak = MAX_RETRIES + 1 => node \in {"error", "END"}
    /\ (streak = MAX_RETRIES + 1 /\ node = "END") =>
        Last(messages) = RateLimitMessage /\ ReturnedText = RateLimitMessage.content

C1_Witness == RetriedThenAnswered /\ node = "END" /\ returned # << >>

\* The run of a model that asks for tools in its first answer and for none in
\* its second, with no rate-limit signal.
OneToolRound ==
    /\ signals = 0 /\ calls = 2 /\ responses = 2
    /\ HasCalls(messages[2]) /\ IsAnswer(Last(messages))

\* C2: a model whose first answer has tool calls and whose second has none
\* makes the loop visit agent, tools, agent, END in that order, and the text
\* returned is the content of the second answer (its str() when the content is
\* not a str).
C2_ToolRoundTrip ==
    OneToolRound =>
        /\ visited = <<"START", "agent", "tools", "agent", "END">>
        /\ node = "END"
        /\ Last(messages).content.tag = "response" /\ Last(messages).content.n = 2
        /\ ReturnedText = content_text(Last(messages).content)
        /\ Last(messages).content.kind = "str" => ReturnedText = Last(messages).content

C2_Witness == OneToolRound /\ node = "END" /\ Last(messages).content.kind = "str"

\* The assistant message at position i is still waiting for its tool node.
Pending(i) == i = Len(messages) /\ node \in {"tools", "raised"}

Dispatched == {i \in 1..Len(messages) : HasCalls(messages[i]) /\ ~Pending(i)}

\* C3: an assistant message with n tool calls is followed by exactly n
\* tool-result messages before the next message of the model, one for each of
\* its calls and with the id of that call; no tool result answers anything else.
C3_OneResultPerCall ==
    /\ \A i \in Dispatched :
        LET tcs == messages[i].tool_calls
            n == Len(tcs)
        IN  /\ Len(messages) >= i + n
            /\ \A j \in (i + 1)..(i + n) : messages[j].role = "tool"
            /\ Len(messages) > i + n => messages[i + n + 1].role = "ai"
            /\ \A k \in 1..n :
                Cardinality({j \in 1..Len(messages) :
                                /\ messages[j].role = "tool"
                                /\ messages[j].tool_call_id = tcs[k].id}) = 1
    /\ \A j \in 1..Len(messages) : messages[j].role = "tool" =>
        \E i \in Dispatched : \E k \in 1..Len(messages[i].tool_calls) :
            i < j /\ messages[i].tool_calls[k].id = messages[j].tool_call_id

C3_Witness ==
    \E i \in Dispatched :
        /\ Len(messages[i].tool_calls) >= 2
        /\ Len(messages) > i + Len(messages[i].tool_calls)
        /\ \E x \in 1..Len(toolLog) : toolLog[x].outcome = "raise"

\* The logged outcome of the handler invocation for a call id.
OutcomeOf(id) == (CHOOSE x \in Range(toolLog) : x.id = id).outcome

\* C4: the tool results of an assistant message stand in the order of its
\* tool calls, the k-th result being that of the k-th call, error description
\* or not.
C4_ResultsInCallOrder ==
    \A i \in Dispatched :
        LET tcs == messages[i].tool_calls
        IN  /\ Len(messages) >= i + Len(tcs)
            /\ \A k \in 1..Len(tcs) :
                /\ messages[i + k].tool_call_id = tcs[k].id
                /\ \E x \in Range(toolLog) : x.id = tcs[k].id
                /\ messages[i + k].content = tool_content(tcs[k], OutcomeOf(tcs[k].id))

C4_Witness ==
    /\ kind = "reservationist"
    /\ \E i \in Dispatched :
        /\ Len(messages[i].tool_calls) = 3
        /\ messages[i + 2].content.tag = "result"
        /\ messages[i + 3].content.tag = "Error executing"
        /\ messages[i + 3].tool_call_id = messages[i].tool_calls[3].id

NotRateLimit(e) ==
    /\ e # NoError
    /\ e.type # "RateLimitError"
    /\ ~(e.type = "HTTPStatusError" /\ e.status_code = 429)

\* C6: a model call that fails with anything but a rate-limit signal ends the
\* run at once by raising: retry_count, rate_limited, error_message, the
\* conversation and the visited nodes stay as they were, nothing is waited
\* for and nothing runs afterwards.
C6_OtherFailureRaises ==
    [][/\ (calls' = calls + 1 /\ NotRateLimit(exc')) =>
            /\ node' = "raised"
            /\ UNCHANGED <<messages, retry_count, rate_limited, error_message,
                           visited, sleeping, returned>>
       /\ node # "raised"]_vars

C6_Witness ==
    /\ node = "raised" /\ exc = Error("HTTPStatusError", 500)
    /\ retry_count > 0 /\ Len(messages) > 1

\* The un-jittered delays after the 1st .. 5th consecutive signal, in seconds.
C7Bases == <<60, 120, 240, 300, 300>>

C7_Wait ==
    /\ sleeping =>
        /\ streak \in 1..MAX_RETRIES
        /\ 4 * (owed - C7Bases[streak] * Scale) >= -(C7Bases[streak] * Scale)
        /\ 4 * (owed - C7Bases[streak] * Scale) <= C7Bases[streak] * Scale
        /\ elapsed < owed
    /\ (node = "agent" /\ ~sleeping /\ streak > 0) => owed > 0 /\ elapsed >= owed
    /\ streak = MAX_RETRIES + 1 => ~sleeping /\ owed = 0

\* C7: the k-th consecutive rate-limit signal, k <= MAX_RETRIES, makes the loop
\* wait a delay within 25% of 60, 120, 240, 300, 300 seconds for k = 1..5; a
\* model call is issued only when the wait is over; the signal that exhausts
\* the retries waits for nothing.
C7_BackoffBeforeRetry ==
    /\ []C7_Wait
    /\ [][calls' > calls => (~sleeping /\ elapsed >= owed)]_vars

C7_Witness == node = "agent" /\ ~sleeping /\ streak = MAX_RETRIES /\ elapsed = owed /\ owed > 0

\* C8: every answer of the model resets retry_count, so retry_count counts the
\* signals since the last answer and the error node needs MAX_RETRIES + 1
\* signals in a row, however many signals the run has seen.
C8_ConsecutiveOnly ==
    /\ streak = 0 => retry_count = 0
    /\ (~sleeping /\ streak <= MAX_RETRIES) => retry_count = streak
    /\ sleeping => retry_count = streak - 1
    /\ (node = "error" \/ ErrorVisited \/ rate_limited) => streak = MAX_RETRIES + 1

C8_Witness ==
    /\ node = "END" /\ ~ErrorVisited /\ ~rate_limited
    /\ signals > MAX_RETRIES /\ responses >= 2

\* C9: the error node appends one assistant message, with error_message (the
\* generic text when it is unset) as content, and ends the loop, whose output
\* is that content; it calls neither the model nor a tool, and nothing runs
\* after END.
C9_ErrorNode ==
    [][/\ node = "error" =>
            /\ messages' = Append(messages,
                    AIMessage(Str(IF error_message = None THEN GENERIC_TEXT
                                  ELSE error_message, 0, ""), NoCalls))
            /\ node' = "END"
            /\ returned' # << >> /\ ReturnedText' = Last(messages').content
            /\ calls' = calls /\ toolLog' = toolLog
       /\ node # "END"]_vars

C9_Witness ==
    /\ node = "END" /\ ErrorVisited
    /\ Len(messages) > 2 /\ Last(messages) = RateLimitMessage
    /\ messages[Len(messages) - 1].role # "ai"

\* C10: the nodes of a run are START, agent, then agent or tools-agent any
\* number of times, then END or error-END: tools is followed by agent, error
\* by END, error and END come after agent (END also after error), and END
\* after agent means no tool calls in the last message, retry_count = 0 and
\* rate_limited = FALSE.
C10_Shape ==
    LET n == Len(visited)
    IN  /\ n >= 2 /\ visited[1] = "START" /\ visited[2] = "agent"
        /\ node = (IF node = "raised" THEN "raised" ELSE visited[n])
        /\ \A i \in 2..n : visited[i] \in {"agent", "tools", "error", "END"}
        /\ \A i \in 1..(n - 1) :
            /\ visited[i] = "agent" => visited[i + 1] \in {"agent", "tools", "error", "END"}
            /\ visited[i] = "tools" => visited[i + 1] = "agent"
            /\ visited[i] = "error" => visited[i + 1] = "END"
            /\ visited[i] # "END"
            /\ visited[i + 1] = "error" => visited[i] = "agent"
            /\ visited[i + 1] = "tools" => visited[i] = "agent"
            /\ visited[i + 1] = "END" => visited[i] \in {"agent", "error"}
        /\ (node = "END" /\ visited[n - 1] = "agent") =>
            /\ ~HasCalls(Last(messages))
            /\ retry_count = 0
            /\ ~rate_limited

C10_Witness ==
    /\ node = "END"
    /\ "tools" \in Range(visited) /\ ErrorVisited
    /\ \E i \in 2..(Len(visited) - 1) : visited[i] = "agent" /\ visited[i + 1] = "agent"

\* C11: a run of the guide's loop in which every model call is rate-limited
\* ends at END through the error node after exactly MAX_RETRIES + 1 model
\* calls; a run in which the model answers without tool calls while
\* retry_count is 0 is at END with that answer; and every run ends (at END,
\* or with the exception agent_node re-raised), the loop itself counting
\* nothing but the consecutive rate-limit failures.
C11_AllRateLimited == calls = signals /\ responses = 0
C11_Termination ==
    /\ [](C11_AllRateLimited /\ (ErrorVisited \/ node = "END") =>
            /\ calls = MAX_RETRIES + 1
            /\ visited = <<"START">> \o [i \in 1..(MAX_RETRIES + 1) |-> "agent"]
                            \o (IF node = "END" THEN <<"error", "END">> ELSE <<"error">>))
    /\ [](IsAnswer(Last(messages)) => node = "END")
    /\ [](node = "END" => IsAnswer(Last(messages)) /\ (ErrorVisited <=> streak > MAX_RETRIES))
    /\ <>(~C11_AllRateLimited \/ (node = "END" /\ ErrorVisited /\ calls = MAX_RETRIES + 1))
    /\ <>(node \in {"END", "raised"})

C11_Witness ==
    /\ node = "END" /\ C11_AllRateLimited
    /\ ErrorVisited /\ calls = MAX_RETRIES + 1

C13_CapMonotone ==
    backoff.out # << >> =>
        LET a == backoff.a
            b == backoff.b
        IN  /\ a <= b => backoff.out[1].base <= backoff.out[2].base
            /\ 60 * Pow2(a) >= 300 <=> a >= 3
            /\ backoff.out[1].base = 300 <=> a >= 3
            /\ a < 3 => backoff.out[1].base = 60 * Pow2(a)
            /\ a >= 3 =>
                /\ backoff.out[1].delay = calculate_backoff_delay(10, backoff.sample)
                /\ \A j \in 0..(JitterDen - 1) :
                      calculate_backoff_delay(a, j) = calculate_backoff_delay(10, j)

C13_Witness ==
    /\ backoff.out # << >> /\ backoff.a = 3 /\ backoff.b = 10
    /\ backoff.out[1] = backoff.out[2] /\ backoff.out[1].base = MAX_DELAY

-----------------------------------------------------------------------------
(* Properties of the cache. *)
Done(p) == req[p].pc = "done"
Entry(p) == files[cache_file(req[p].region)]
Fresh(at) == now - at < CACHE_DURATION_SECONDS
Looked(p) == req[p].path # ""

\* C14: a call that finds no entry for its region and returns listings has
\* made exactly one fetch and has stored what it returns; a call that
\* finds the entry such a call stored, less than 30 days later, and returns
\* listings has made no fetch and returns the stored listings.
C14_FetchOnceThenHit ==
    \A p \in Procs :
        (Done(p) /\ req[p].result.type = "list") =>
            /\ ~req[p].seen.exists =>
                /\ req[p].fetches = 1
                /\ Entry(p).put = [at |-> Entry(p).birth, data |-> req[p].result.data]
                /\ json_load(Entry(p).text) = [ok |-> TRUE, data |-> req[p].result.data]
            /\ (/\ req[p].seen.exists
                /\ req[p].seen.put.at = req[p].seen.birth
                /\ Fresh(req[p].seen.put.at)) =>
                /\ req[p].fetches = 0
                /\ req[p].result.data = req[p].seen.put.data

\* C15: a call that gets as far as the cache takes the cached listings iff
\* the entry exists and was created less than 30 days before the call
\* (29 days: taken; 30 or 31 days, or no entry: the call fetches), and what
\* it takes is the stored payload.
C15_HitIffFresh ==
    \A p \in Procs :
        Looked(p) =>
            /\ req[p].path = "read_kb" <=>
                    /\ req[p].seen.exists
                    /\ req[p].at - req[p].seen.birth < 30 * Day
            /\ req[p].path # "read_kb" => req[p].path = "_fetch_escape_rooms"
            /\ (Done(p) /\ req[p].path = "read_kb" /\ req[p].fault = "") =>
                    req[p].result = ListResult(req[p].seen.put.data)

\* C16: once dump_kb(v, k) has run to its end, the text of k reads back as
\* v, read_kb(k) returns v every time, and the age of k taken right after
\* the dump is 0.
C16_RoundTrip ==
    \A p \in Procs :
        (Done(p) /\ req[p].fault = "") =>
            /\ req[p].path = "_fetch_escape_rooms" =>
                /\ json_load(Entry(p).text) = [ok |-> TRUE, data |-> req[p].result.data]
                /\ now = req[p].at => cache_age(cache_file(req[p].region)) = 0
            /\ req[p].path = "read_kb" =>
                /\ req[p].result = ListResult(req[p].seen.put.data)
                /\ json_load(Entry(p).text) = [ok |-> TRUE, data |-> req[p].result.data]

\* C17: a dump_kb onto an existing entry stores the new payload, and the
\* entry counts as created then: a call that finds an overwritten entry
\* whose last dump_kb is less than 30 days old takes it from the cache
\* (stated for the platforms that report st_birthtime).
C17_OverwriteRenews ==
    \A p \in Procs :
        /\ (Done(p) /\ req[p].fault = "" /\ req[p].path = "_fetch_escape_rooms"
                /\ req[p].seen.exists) =>
                json_load(Entry(p).text) = [ok |-> TRUE, data |-> req[p].result.data]
        /\ (/\ st_birthtime /\ Looked(p)
            /\ req[p].seen.exists
            /\ req[p].seen.put.at > req[p].seen.birth
            /\ req[p].at - req[p].seen.put.at < CACHE_DURATION_SECONDS) =>
                req[p].path = "read_kb"

\* C18 as stated: a call that finds no entry, or runs where stat results
\* have no st_birthtime, takes the cache-hit path.
C18_UnavailableIsFresh ==
    \A p \in Procs :
        (Looked(p) /\ (~req[p].seen.exists \/ ~st_birthtime)) => req[p].path = "read_kb"

\* C18, amended: when the time of creation is unavailable (no entry, or no
\* st_birthtime) get_kb_age_seconds returns 0, cache_age is the whole of
\* time.time(), which is not below CACHE_DURATION_SECONDS, and the call
\* takes the fetch path: it never reads the cache, and when it returns
\* listings it has fetched them.
C18_UnavailableRefetches ==
    /\ \A n \in Names :
        (~files[n].exists \/ ~st_birthtime) =>
            /\ get_kb_age_seconds(n) = 0
            /\ cache_age(n) = now
            /\ ~(cache_age(n) < CACHE_DURATION_SECONDS)
    /\ \A p \in Procs :
        (Looked(p) /\ (~req[p].seen.exists \/ ~st_birthtime)) =>
            /\ req[p].path = "_fetch_escape_rooms"
            /\ (Done(p) /\ req[p].result.type = "list") => req[p].fetches = 1

C18_Witness ==
    /\ ~st_birthtime /\ Done(1)
    /\ req[1].seen.exists /\ req[1].seen.put.at = req[1].at
    /\ req[1].path = "_fetch_escape_rooms"
    /\ req[1].fetches = 1 /\ req[1].result.type = "list"

\* C19: a failure of the cache storage (a stat, open, read or write that
\* raises, a text that does not parse) is treated as no cache: the call
\* fetches and returns the fetched listings, not an error str.
C19_StorageFailureRefetches ==
    \A p \in Procs :
        (Done(p) /\ req[p].fault \in {"storage", "decode"}) =>
            /\ req[p].result.type = "list"
            /\ req[p].fetches = 1

\* C20: with two processes at work on the same region, a call that reads
\* the cache file reads the whole payload of one dump_kb, never an empty or
\* half-written text (files a failed dump_kb has left behind set aside).
C20_NoTornRead ==
    \A p \in Procs :
        (Done(p) /\ req[p].path = "read_kb" /\ req[p].fault # "storage"
                /\ ~Entry(p).failed) =>
            /\ req[p].fault = ""
            /\ \E rev \in 1..MaxRevs : req[p].result = ListResult(Listings(rev))

\* C21: search_escape_rooms never raises: whatever geocoding, the cache
\* files and the directory request do, a call that has ended has returned
\* listings or a str; a geocoding miss gives the "Could not find
\* coordinates" str, a non-2xx answer of the directory the "API error" str,
\* any other failure the "Error searching" str, and no failure listings.
C21_NeverRaises ==
    \A p \in Procs :
        Done(p) =>
            /\ req[p].result.type \in {"list", "str"}
            /\ req[p].fault = "no_location" => req[p].result = StrResult(COULD_NOT_FIND)
            /\ req[p].fault = "status" => req[p].result = StrResult(API_ERROR)
            /\ req[p].fault \in {"geocode", "http", "storage", "decode"} =>
                    req[p].result = StrResult(SEARCH_ERROR)
            /\ req[p].fault = "" <=> req[p].result.type = "list"

C21_Witness ==
    /\ Done(1) /\ req[1].fault = "status"
    /\ req[1].fetches = 1 /\ req[1].result = StrResult(API_ERROR)

\* C22: the cache file name built from a region name is sanitized: it holds
\* no whitespace, comma or path separator, so the path opened for it is one
\* entry directly inside DATA_DIR and never a path outside it.
Unsafe == {" ", ",", "/"}
C22_KeySanitized ==
    key.path # << >> =>
        LET path == key.path[1]
        IN  /\ \A i \in 1..Len(path.name) : path.name[i] \notin Unsafe
            /\ ~path.absolute /\ ~path.out
            /\ path.depth = 1

\* C23: at every model call of the reservationist, every tool presented to
\* the model has its name in ALLOWED_TOOLS, and the tools presented are those
\* of the host's list whose names are among the ten of ALLOWED_TOOLS.
C23_PresentedAllowed ==
    (kind = "reservationist" /\ calls > 0) =>
        /\ \A i \in 1..Len(presented) : presented[i] \in ALLOWED_TOOLS
        /\ Range(presented) = Range(mcp_tools) \cap ALLOWED_TOOLS
        /\ Cardinality(ALLOWED_TOOLS) = 10

C23_Witness ==
    /\ kind = "reservationist" /\ calls > 1
    /\ Range(mcp_tools) \ ALLOWED_TOOLS # {}
    /\ presented = <<"browser_navigate", "browser_close">>

\* C24: in every run of the reservationist that has ended, with a final
\* response or with the error message after the retries ran out, the last tool
\* call the loop executed is browser_close.
C24_CloseIsLast ==
    (kind = "reservationist" /\ node = "END" /\ toolLog # << >>) =>
        Last(toolLog).name = "browser_close"

\* C25: without the API key plan_escape_room_trip returns the error string
\* and nothing else happens: no model call is issued, no tool handler is
\* started, no loop is entered, and the files of the cache stay as they were.
C25_NoKeyNoRun ==
    ~api_key =>
        /\ trip.pc \in {"called", "returned"}
        /\ trip.pc = "returned" => trip.result = <<Str(NO_API_KEY, 0, "")>>
        /\ calls = 0 /\ presented = << >> /\ toolLog = << >>
        /\ node = "START" /\ messages = << >>
        /\ \A i \in Slots : handlers[i] = NoHandler
        /\ \A i \in {0} \cup Slots : saved[i] = << >>
        /\ CacheIdle

C25_Witness == ~api_key /\ trip.pc = "returned" /\ trip.result[1].tag = NO_API_KEY

\* C26: a planner hierarchy has one thread of control: while the sub-loop a
\* tool handler of the planner runs has not ended, the planner makes no model
\* call and starts no other tool handler, so at most one handler of the
\* planner is in progress and only the loop in focus is not at its end.
C26_SingleThread ==
    /\ Cardinality({i \in Slots : handlers[i].pc = "running"}) <= 1
    /\ \A i \in Slots : handlers[i].pc = "running" =>
            IF focus = i THEN saved[0] # << >> /\ saved[0][1].node = "tools"
            ELSE kind = "planner" /\ node = "tools"

\* The fields of AgentState the loops have in common.
StateOf(f) == <<f.messages, f.retry_count, f.rate_limited, f.error_message>>

C28_HandlersReturn ==
    /\ \A i \in Slots : handlers[i].pc # "raised"
    /\ \A i \in Slots : handlers[i].pc = "returned" => handlers[i].result[1].kind = "str"
    /\ (focus = 0 /\ kind = "planner" /\ node = "raised") => exc # NoError

\* The edges of the Morty graph.
MortyEdges ==
    {<<"START", "agent">>, <<"agent", "tools">>, <<"tools", "agent">>,
     <<"agent", "extract">>, <<"extract", "END">>}

\* C29: a run of the Morty agent follows START -> agent -> (tools -> agent)*
\* -> extract -> END: extract is entered at most once, exactly once in a run
\* that has ended, and only after a response without tool calls; there is no
\* retry and no error state, and a model call that fails, with a rate-limit
\* signal or with anything else, ends the run by raising.
C29_MortyShape ==
    /\ [](/\ visited[1] = "START"
          /\ \A i \in 1..(Len(visited) - 1) : <<visited[i], visited[i + 1]>> \in MortyEdges
          /\ Cardinality({i \in 1..Len(visited) : visited[i] = "extract"}) <= 1
          /\ node = "END" => \E i \in 1..Len(visited) : visited[i] = "extract"
          /\ (\E i \in 1..Len(visited) : visited[i] = "extract") =>
                Last(messages).role = "ai" /\ Len(Last(messages).tool_calls) = 0
          /\ retry_count = 0 /\ ~rate_limited /\ ~sleeping
          /\ node \in {"agent", "tools", "extract", "END", "raised"}
          /\ exc # NoError => node = "raised")
    /\ [][(calls' = calls + 1 /\ responses' = responses) =>
            (exc' # NoError /\ node' = "raised" /\ returned' = << >>)]_vars

C29_Witness ==
    /\ kind = "morty" /\ node = "END"
    /\ visited = <<"START", "agent", "tools", "agent", "extract", "END">>

\* C30: in every state of a control loop 0 <= retry_count <= MAX_RETRIES; the
\* rate-limit signal that exhausts the retries sets rate_limited and leaves
\* retry_count at MAX_RETRIES; rate_limited, once true, stays true.
C30_RetryRange ==
    /\ [](retry_count \in 0..MAX_RETRIES)
    /\ [][(~rate_limited /\ rate_limited') =>
            (retry_count = MAX_RETRIES /\ retry_count' = retry_count)]_vars
    /\ [][rate_limited => rate_limited']_vars

C30_Witness ==
    /\ rate_limited /\ retry_count = MAX_RETRIES
    /\ node = "END" /\ streak = MAX_RETRIES + 1

\* C31: in every state rate_limited implies that error_message is the
\* rate-limiting text, and no message of a run carries the generic fallback
\* text of handle_rate_limit_error.
C31_ErrorTextSet ==
    /\ rate_limited => error_message = RATE_LIMIT_TEXT
    /\ ~rate_limited => error_message = None
    /\ \A i \in 1..Len(messages) : messages[i].content.tag # GENERIC_TEXT

C31_Witness ==
    /\ node = "END" /\ rate_limited /\ error_message = RATE_LIMIT_TEXT
    /\ Last(messages).role = "ai" /\ Last(messages).content.tag = RATE_LIMIT_TEXT

\* C32: a model call that is rate-limited leaves the conversation as it is:
\* from the rate-limit signal through the backoff wait to the next model call
\* no message is appended, removed or reordered, so that call is issued with
\* the system prompt and the messages of the call that was rate-limited.
C32_StreakKeepsConversation ==
    /\ [][signals' # signals => model_input(kind, messages)' = model_input(kind, messages)]_vars
    /\ [][sleeping => model_input(kind, messages)' = model_input(kind, messages)]_vars
    /\ [][(streak > 0 /\ node = "agent" /\ calls' # calls) =>
            /\ retry_count = streak
            /\ Len(messages') >= Len(messages)
            /\ SubSeq(messages', 1, Len(messages)) = messages]_vars

C32_Witness ==
    /\ node = "agent" /\ ~sleeping /\ streak = 2 /\ retry_count = 2
    /\ Len(messages) = 3 /\ messages[3].role = "tool"

\* C33: after the agent node the route is error when rate_limited, else agent
\* when retry_count > 0, else tools when the last message is an assistant
\* message with tool calls, else END; when the route is tools or END,
\* retry_count is 0 and the last message is the response the model call of
\* this step appended; no tool call is dispatched twice.
C33_Routing ==
    /\ [][(node = "agent" /\ visited' # visited) =>
            /\ node' = (IF rate_limited' THEN "error"
                        ELSE IF retry_count' > 0 THEN "agent"
                        ELSE IF HasCalls(Last(messages')) THEN "tools"
                        ELSE "END")
            /\ node' \in {"tools", "END"} =>
                /\ retry_count' = 0
                /\ responses' = responses + 1
                /\ Len(messages') = Len(messages) + 1
                /\ SubSeq(messages', 1, Len(messages)) = messages
                /\ Last(messages').role = "ai"
                /\ Last(messages').content.n = responses']_vars
    /\ [](\A i, j \in 1..Len(toolLog) : toolLog[i].id = toolLog[j].id => i = j)

C33_Witness ==
    /\ node = "tools" /\ signals > 0 /\ streak = 0 /\ retry_count = 0
    /\ Len(toolLog) > 0 /\ responses = 2

\* C34: the tool node of the reservationist invokes on the browser host only
\* tools whose name is in ALLOWED_TOOLS: a tool call of a response that names
\* another tool is not forwarded to the session.
C34_DispatchAllowed ==
    kind = "reservationist" => \A i \in 1..Len(toolLog) : toolLog[i].name \in ALLOWED_TOOLS

\* C35: when the reservationist sub-loop of check_room_availability ends
\* through its error node, the BookingAvailability of check_availability has
\* error set and the handler returns a text that starts with "Error checking
\* availability", not an availability report with the error text in its notes.
C35_FailureReported ==
    /\ (focus # 0 /\ kind = "reservationist" /\ node = "END" /\ rate_limited) =>
            returned[1].error # None
    /\ \A i \in Slots :
            (/\ handlers[i].pc = "returned"
             /\ handlers[i].name = "check_room_availability"
             /\ handlers[i].result[1].s = RATE_LIMIT_TEXT) =>
                handlers[i].result[1].tag \in {AVAILABILITY_ERROR, AVAILABILITY_EXCEPTION}

\* C36: a call of search_escape_rooms that returns an error string leaves the
\* cache as it found it: after a geocoding miss or failure neither the cache
\* file nor the directory has been looked at, after a failed request to the
\* directory no file has been opened for writing, and in every case the
\* entry of the region has the existence, the creation time and the payload
\* the call found.
C36_ErrorKeepsCache ==
    \A p \in Procs :
        (Done(p) /\ req[p].result.type = "str") =>
            /\ req[p].fault \in {"no_location", "geocode"} =>
                    ~Looked(p) /\ req[p].fetches = 0
            /\ ~req[p].opened
            /\ Seen(Entry(p)) = req[p].seen

\* C37: a call that finds for its region an entry stored less than 30 days
\* before returns the stored listings also when the geocoding of the region
\* fails or finds nothing.
C37_FreshServedWithoutGeocoding ==
    \A p \in Procs :
        (/\ Done(p)
         /\ req[p].seen.exists
         /\ req[p].seen.put.at = req[p].seen.birth
         /\ req[p].at - req[p].seen.put.at < CACHE_DURATION_SECONDS
         /\ req[p].fault \in {"no_location", "geocode"}) =>
            /\ req[p].result.type = "list"
            /\ req[p].result.data = req[p].seen.put.data

====
